---- MODULE Spec2Model ----
(***************************************************************************)
(* A model of groqy (src/main.go): a Telegram bot that relays free text to *)
(* a chat-completion API, gated by a shared secret stored per user in a    *)
(* SQLite table.                                                           *)
(*                                                                         *)
(* State: the process environment's AUTH_TOKEN, the users table of         *)
(* ./sqlite.db (which outlives the process), the ids made so far, and a    *)
(* record of the last update handled (what was sent, what the handler      *)
(* returned, which prompts reached the completion API).                    *)
(***************************************************************************)
EXTENDS Naturals, Sequences, FiniteSets

VARIABLES
    env,      \* the value of AUTH_TOKEN in the process environment
    db,       \* ./sqlite.db: [exists |-> the users table exists, users |-> its rows in rowid order]
    ulid,     \* number of ids ulid.Make() has produced so far
    last,     \* the last update handled, its inputs and its effects
    authOK,   \* history: per username, the /auth calls that reached "Authenticated successfully" since the table was last dropped
    authed    \* history: usernames whose /auth succeeded since AUTH_TOKEN last changed or the table was dropped

vars == <<env, db, ulid, last, authOK, authed>>

-----------------------------------------------------------------------------
(* Bounds *)

\* ids ulid.Make() may hand out in one behaviour (bounds the table's size)
MaxId == 2

-----------------------------------------------------------------------------
(* Inputs *)

\* the nil error
Nil == "nil"

\* senders: tele.User.Username is "" for an account without a username
Senders ==
    { [Username |-> "alice", FirstName |-> "Alice"],
      [Username |-> "bob",   FirstName |-> "Bob"],
      [Username |-> "",      FirstName |-> "Carol"] }

Usernames == { s.Username : s \in Senders }

\* words a user can type after /auth (c.Args() never holds an empty word)
Words == { "secret123", "hunter2" }

\* values AUTH_TOKEN can have in .env (unset reads as "")
Secrets == Words \cup { "" }

\* c.Args(): the words after the command
ArgLists ==
    { <<>> } \cup { <<a>> : a \in Words } \cup { w \in Words \X Words : w[1] # w[2] }

\* free texts (no leading command)
Texts == { "hello" }

\* what c.Send returns
SendResults == { Nil, "telegram: send failed" }

\* what the HTTP exchange with the completion API does
ApiOutcomes ==
    { [stage |-> "send", choices |-> <<>>],
      [stage |-> "json", choices |-> <<>>],
      [stage |-> "ok",   choices |-> <<>>],
      [stage |-> "ok",   choices |-> <<"Hi there">>],
      [stage |-> "ok",   choices |-> <<"4", "Hi there">>] }

-----------------------------------------------------------------------------
(* Credential store *)

NewUser(id, username, token) == [ID |-> id, Username |-> username, Token |-> token]

\* var user User: the zero value
ZeroUser == NewUser(0, "", "")

ErrNoTable == "no such table: users"

\* CREATE TABLE IF NOT EXISTS; ok = FALSE is an Exec that fails (main logs it and goes on)
CreateTables(d, ok) ==
    IF d.exists \/ ~ok THEN d ELSE [exists |-> TRUE, users |-> <<>>]

\* a plausible bug: replace the username's rows instead of adding one
CreateUserUpsert(d, id, username, token) ==
    IF ~d.exists
    THEN [db |-> d, err |-> ErrNoTable]
    ELSE [db  |-> [d EXCEPT !.users =
                      Append(SelectSeq(d.users, LAMBDA r : r.Username # username),
                             NewUser(id, username, token))],
          err |-> Nil]

CreateUser(d, id, username, token) ==
    IF ~d.exists
    THEN [db |-> d, err |-> ErrNoTable]
    ELSE [db  |-> [d EXCEPT !.users = Append(d.users, NewUser(id, username, token))],
          err |-> Nil]

\* the rows SELECT * FROM users WHERE username=? yields, in rowid order
RowsOf(d, username) == SelectSeq(d.users, LAMBDA r : r.Username = username)

\* a plausible bug: sql.ErrNoRows is swallowed and the zero User returned
GetUserNoRowsNil(d, username) ==
    IF ~d.exists
    THEN [user |-> ZeroUser, err |-> ErrNoTable]
    ELSE IF RowsOf(d, username) = <<>>
         THEN [user |-> ZeroUser, err |-> Nil]
         ELSE [user |-> Head(RowsOf(d, username)), err |-> Nil]

\* sqlx Get scans the first row of the result and yields sql.ErrNoRows on none
GetUser(d, username) ==
    IF ~d.exists
    THEN [user |-> ZeroUser, err |-> ErrNoTable]
    ELSE IF RowsOf(d, username) = <<>>
         THEN [user |-> ZeroUser, err |-> "user not found"]
         ELSE [user |-> Head(RowsOf(d, username)), err |-> Nil]

Cleanup(d) == [exists |-> FALSE, users |-> <<>>]

-----------------------------------------------------------------------------
(* Authorization gate *)

\* a plausible bug: any non-empty token is accepted
validateTokenNonEmpty(token, AUTH_TOKEN) == token # ""

validateToken(token, AUTH_TOKEN) == token = AUTH_TOKEN

\* a plausible bug: the stored token is not re-validated
checkAuthNoToken(c, d, AUTH_TOKEN) ==
    IF GetUser(d, c.sender.Username).err # Nil
    THEN "could not get user: " \o GetUser(d, c.sender.Username).err
    ELSE Nil

checkAuth(c, d, AUTH_TOKEN) ==
    LET got == GetUser(d, c.sender.Username)
    IN  IF got.err # Nil
        THEN "could not get user: " \o got.err
        ELSE IF validateToken(got.user.Token, AUTH_TOKEN)
             THEN Nil
             ELSE "invalid token"

AuthRequired == "Authentication required\nPlease use /auth yourtoken"

\* what a handler did: the texts handed to c.Send, the error it returned, the
\* prompts handed to queryGroq, the lines logged, and how often the handler
\* wrapped by withAuth ran
Did(sent, ret, groq, logged) ==
    [sent |-> sent, ret |-> ret, groq |-> groq, logged |-> logged, calls |-> 0]

\* a plausible bug: the wrapped handler also runs after the notice
withAuthFallThrough(c, d, AUTH_TOKEN, handler) ==
    IF checkAuth(c, d, AUTH_TOKEN) # Nil
    THEN [handler EXCEPT !.sent = <<AuthRequired>> \o handler.sent,
                         !.calls = 1]
    ELSE [handler EXCEPT !.calls = 1]

\* `handler` is what the wrapped handler does when it is run on c
withAuth(c, d, AUTH_TOKEN, handler) ==
    IF checkAuth(c, d, AUTH_TOKEN) # Nil
    THEN Did(<<AuthRequired>>, c.sendErr, <<>>, <<>>)
    ELSE [handler EXCEPT !.calls = 1]

-----------------------------------------------------------------------------
(* Completion client *)

queryGroq(message, http) ==
    IF http.stage = "send" THEN [res |-> "", err |-> "Error sending request"]
    ELSE IF http.stage = "read" THEN [res |-> "", err |-> "Error reading response body"]
    ELSE IF http.stage = "json" THEN [res |-> "", err |-> "Error unmarshaling response"]
    ELSE IF Len(http.choices) = 0 THEN [res |-> "", err |-> "No message found in the response"]
    ELSE [res |-> http.choices[1], err |-> Nil]

-----------------------------------------------------------------------------
(* Handlers *)

\* b.Handle("/start", ...)
startHandler(c) ==
    Did(<<"Hello, " \o c.sender.FirstName>>, c.sendErr, <<>>, <<>>)

TooManyOrTooLittle == "Either provided too many or too little arguments"

\* a plausible bug: only the missing argument is rejected
authHandlerAtLeastOne(c, d, AUTH_TOKEN, id) ==
    IF Len(c.args) = 0
    THEN [did |-> Did(<<TooManyOrTooLittle>>, c.sendErr, <<>>, <<>>), db |-> d, made |-> 0]
    ELSE IF ~validateToken(c.args[1], AUTH_TOKEN)
    THEN [did |-> Did(<<"Invalid token">>, c.sendErr, <<>>, <<>>), db |-> d, made |-> 0]
    ELSE IF CreateUser(d, id, c.sender.Username, c.args[1]).err # Nil
    THEN [did  |-> Did(<<"ERROR: Could not save your token"
                          \o CreateUser(d, id, c.sender.Username, c.args[1]).err>>,
                       c.sendErr, <<>>, <<>>),
          db   |-> d, made |-> 1]
    ELSE [did  |-> Did(<<"Authenticated successfully">>, c.sendErr, <<>>, <<>>),
          db   |-> CreateUser(d, id, c.sender.Username, c.args[1]).db, made |-> 1]

\* made: the ids ulid.Make() produced (CreateUser makes one before its INSERT)
authHandler(c, d, AUTH_TOKEN, id) ==
    IF Len(c.args) # 1
    THEN [did |-> Did(<<TooManyOrTooLittle>>, c.sendErr, <<>>, <<>>), db |-> d, made |-> 0]
    ELSE IF ~validateToken(c.args[1], AUTH_TOKEN)
    THEN [did |-> Did(<<"Invalid token">>, c.sendErr, <<>>, <<>>), db |-> d, made |-> 0]
    ELSE IF CreateUser(d, id, c.sender.Username, c.args[1]).err # Nil
    THEN [did  |-> Did(<<"ERROR: Could not save your token"
                          \o CreateUser(d, id, c.sender.Username, c.args[1]).err>>,
                       c.sendErr, <<>>, <<>>),
          db   |-> d, made |-> 1]
    ELSE [did  |-> Did(<<"Authenticated successfully">>, c.sendErr, <<>>, <<>>),
          db   |-> CreateUser(d, id, c.sender.Username, c.args[1]).db, made |-> 1]

baseInstruct == "Do not use any markdown formatting in your response, keep it plain text\n\n\n"

\* AIResponse is set to the notice on an error and then overwritten by res
chatHandler(c, userMessage) ==
    LET q          == queryGroq(baseInstruct \o userMessage, c.http)
        afterIf    == IF q.err # Nil THEN "An error occured" ELSE ""  \* lines 152-155
        AIResponse == q.res                                           \* line 156, unconditional
    IN  Did(<<AIResponse>>, c.sendErr, <<baseInstruct \o userMessage>>,
            IF q.err # Nil THEN <<q.err>> ELSE <<>>)

\* the handler main wraps in withAuth for tele.OnText
onText(c, d) ==
    LET got == GetUser(d, c.sender.Username)
    IN  IF got.err # Nil
        THEN Did(<<>>, got.err, <<>>, <<>>)
        ELSE IF got.user.Username = ""
             THEN Did(<<"Can't seem to find you " \o c.sender.Username>>, c.sendErr, <<>>, <<>>)
             ELSE chatHandler(c, c.text)

-----------------------------------------------------------------------------
(* The state machine *)

NoApi == [stage |-> "none", choices |-> <<>>]

Context(sender, args, text, sendErr, http) ==
    [sender |-> sender, args |-> args, text |-> text, sendErr |-> sendErr, http |-> http]

NoContext == Context([Username |-> "", FirstName |-> ""], <<>>, "", Nil, NoApi)

\* kind: the trigger matched; c: the update; before, ids: db and ulid before it;
\* did: what the handler did; auth: what checkAuth returned ("n/a" when not run)
Handled(kind, c, before, ids, did, auth) ==
    [kind |-> kind, c |-> c, before |-> before, ids |-> ids, did |-> did, auth |-> auth]

NoFile == [exists |-> FALSE, users |-> <<>>]

NoCount == [u \in Usernames |-> 0]

\* main: .env is loaded and CreateTables makes the table in a fresh ./sqlite.db
Init ==
    /\ env \in Secrets
    /\ db = CreateTables(NoFile, TRUE)
    /\ ulid = 0
    /\ last = Handled("main", NoContext, NoFile, 0, Did(<<>>, Nil, <<>>, <<>>), "n/a")
    /\ authOK = NoCount
    /\ authed = {}

\* the process is started again, possibly with another AUTH_TOKEN in .env
Main ==
    \E secret \in Secrets, ok \in BOOLEAN :
        /\ env' = secret
        /\ db' = CreateTables(db, ok)
        /\ last' = Handled("main", NoContext, db, ulid, Did(<<>>, Nil, <<>>, <<>>), "n/a")
        /\ authed' = IF secret = env THEN authed ELSE {}
        /\ UNCHANGED <<ulid, authOK>>

Start ==
    \E sender \in Senders, sendErr \in SendResults :
        LET c == Context(sender, <<>>, "/start", sendErr, NoApi)
        IN  /\ last' = Handled("/start", c, db, ulid, startHandler(c), "n/a")
            /\ UNCHANGED <<env, db, ulid, authOK, authed>>

Auth ==
    \E sender \in Senders, args \in ArgLists, sendErr \in SendResults :
        LET c == Context(sender, args, "/auth", sendErr, NoApi)
            h == authHandler(c, db, env, ulid + 1)
            ok == h.did.sent = <<"Authenticated successfully">>
        IN  /\ ulid + h.made <= MaxId
            /\ db' = h.db
            /\ ulid' = ulid + h.made
            /\ last' = Handled("/auth", c, db, ulid, h.did, "n/a")
            /\ authOK' = IF ok THEN [authOK EXCEPT ![sender.Username] = @ + 1] ELSE authOK
            /\ authed' = IF ok THEN authed \cup {sender.Username} ELSE authed
            /\ UNCHANGED env

Text ==
    \E sender \in Senders, text \in Texts, sendErr \in SendResults, http \in ApiOutcomes :
        LET c == Context(sender, <<>>, text, sendErr, http)
        IN  /\ last' = Handled("text", c, db, ulid, withAuth(c, db, env, onText(c, db)),
                               checkAuth(c, db, env))
            /\ UNCHANGED <<env, db, ulid, authOK, authed>>

\* the administrative table drop (MustExec panics when there is no table)
Drop ==
    /\ db.exists
    /\ db' = Cleanup(db)
    /\ last' = Handled("cleanup", NoContext, db, ulid, Did(<<>>, Nil, <<>>, <<>>), "n/a")
    /\ authOK' = NoCount
    /\ authed' = {}
    /\ UNCHANGED <<env, ulid>>

Next == Main \/ Start \/ Auth \/ Text \/ Drop

Spec == Init /\ [][Next]_vars

-----------------------------------------------------------------------------
(* Properties *)

Sender == last.c.sender.Username

IsPrefix(s, t) == Len(s) <= Len(t) /\ SubSeq(t, 1, Len(s)) = s

\* C1: the handler withAuth returns does not run the wrapped handler when
\* checkAuth fails (no row, or a stored token that differs from the secret) and
\* then sends exactly the authentication-required notice; when checkAuth
\* succeeds it runs the wrapped handler once and what was sent, what reached the
\* completion client and the error returned are the wrapped handler's own.
C1_GateWrapsHandler ==
    last.kind = "text" =>
        /\ last.auth # Nil =>
              /\ last.did.calls = 0
              /\ last.did.sent = <<AuthRequired>>
              /\ last.did.groq = <<>>
        /\ last.auth = Nil =>
              /\ last.did.calls = 1
              /\ last.did.sent = onText(last.c, last.before).sent
              /\ last.did.groq = onText(last.c, last.before).groq
              /\ last.did.ret = onText(last.c, last.before).ret

\* a text refused because the stored token differs from the secret
C1_Witness ==
    /\ last.kind = "text"
    /\ last.auth = "invalid token"
    /\ last.did.sent = <<AuthRequired>>
    /\ last.did.calls = 0

\* C2 (as claimed): when queryGroq returns an error the text sent is exactly
\* "An error occurred"; when it succeeds the text sent is the completion.
C2_ErrorNoticeSent ==
    (last.kind = "text" /\ last.did.groq # <<>>) =>
        LET q == queryGroq(last.did.groq[1], last.c.http)
        IN  /\ q.err # Nil => last.did.sent = <<"An error occurred">>
            /\ q.err = Nil => last.did.sent = <<q.res>>

\* C3 (as claimed): once u's /auth has succeeded and AUTH_TOKEN has not changed
\* since, a text t of u passes the gate, queryGroq is called once with the
\* preamble followed by t, and the reply is the first choice's content.
C3_AuthedUserChats ==
    (last.kind = "text" /\ Sender \in authed) =>
        /\ last.auth = Nil
        /\ last.did.groq = <<baseInstruct \o last.c.text>>
        /\ (last.c.http.stage = "ok" /\ last.c.http.choices # <<>>) =>
               last.did.sent = <<last.c.http.choices[1]>>

\* C4: queryGroq is called for a text only if the table holds a row of the
\* sender whose token is the secret; a sender without any row gets the
\* authentication-required notice and queryGroq is not called.
C4_GroqOnlyForStoredSecret ==
    last.kind = "text" =>
        /\ last.did.groq # <<>> =>
              /\ db.exists
              /\ \E i \in 1..Len(db.users) :
                    db.users[i].Username = Sender /\ db.users[i].Token = env
        /\ RowsOf(db, Sender) = <<>> =>
              /\ last.did.sent = <<AuthRequired>>
              /\ last.did.groq = <<>>

\* a text that reached queryGroq while another user holds a row too
C4_Witness ==
    /\ last.kind = "text"
    /\ last.did.groq # <<>>
    /\ \E i \in 1..Len(db.users) : db.users[i].Username # Sender

\* C5: /auth with an argument count other than 1 leaves the table as it was,
\* makes no id (CreateUser is not called) and replies with the too many or too
\* little notice.
C5_WrongArgCount ==
    (last.kind = "/auth" /\ Len(last.c.args) # 1) =>
        /\ db = last.before
        /\ ulid = last.ids
        /\ last.did.sent = <<TooManyOrTooLittle>>

\* /auth with two arguments, the first being the secret, on an existing table
C5_Witness ==
    /\ last.kind = "/auth"
    /\ Len(last.c.args) = 2
    /\ last.c.args[1] = env
    /\ db.exists
    /\ last.did.sent = <<TooManyOrTooLittle>>

\* the table after /auth holds the rows it held plus one new row (sender, a)
OneRowAdded(a) ==
    /\ db.exists
    /\ Len(db.users) = Len(last.before.users) + 1
    /\ IsPrefix(last.before.users, db.users)
    /\ db.users[Len(db.users)].Username = Sender
    /\ db.users[Len(db.users)].Token = a
    /\ \A i \in 1..Len(last.before.users) :
          db.users[i].ID # db.users[Len(db.users)].ID

ValidatesExactlyTheSecret ==
    \A s \in Secrets \cup Words : validateToken(s, env) <=> s = env

\* C6 (as claimed): validateToken(s) iff s is AUTH_TOKEN; /auth with one
\* argument a adds exactly one row (sender, a) and replies "Authenticated
\* successfully" when a is the secret, and otherwise leaves the table alone
\* and replies "Invalid token".
C6_AuthOneArg ==
    /\ ValidatesExactlyTheSecret
    /\ (last.kind = "/auth" /\ Len(last.c.args) = 1) =>
          IF last.c.args[1] = env
          THEN OneRowAdded(last.c.args[1]) /\ last.did.sent = <<"Authenticated successfully">>
          ELSE db = last.before /\ last.did.sent = <<"Invalid token">>

\* C6 (amended): as C6, where the success case is the one in which CreateUser
\* succeeds; when CreateUser fails the table is as it was and the reply is
\* "ERROR: Could not save your token" followed by the error's text.
C6_AuthOneArgAmended ==
    /\ ValidatesExactlyTheSecret
    /\ (last.kind = "/auth" /\ Len(last.c.args) = 1) =>
          IF last.c.args[1] # env
          THEN db = last.before /\ last.did.sent = <<"Invalid token">>
          ELSE IF CreateUser(last.before, last.ids + 1, Sender, last.c.args[1]).err = Nil
          THEN OneRowAdded(last.c.args[1]) /\ last.did.sent = <<"Authenticated successfully">>
          ELSE /\ db = last.before
               /\ last.did.sent = <<"ERROR: Could not save your token"
                      \o CreateUser(last.before, last.ids + 1, Sender, last.c.args[1]).err>>

\* a second successful /auth of the same user
C6_Witness ==
    /\ last.kind = "/auth"
    /\ Len(last.c.args) = 1
    /\ last.did.sent = <<"Authenticated successfully">>
    /\ Len(RowsOf(db, Sender)) = 2

\* C7 (as claimed): for a username without a row GetUser returns the "user not
\* found" error; it returns a nil error only with a row of that username, never
\* with the zero User.
C7_NotFound ==
    \A u \in Usernames :
        /\ RowsOf(db, u) = <<>> => GetUser(db, u).err = "user not found"
        /\ GetUser(db, u).err = Nil =>
              /\ GetUser(db, u).user # ZeroUser
              /\ \E i \in 1..Len(db.users) :
                    db.users[i] = GetUser(db, u).user /\ db.users[i].Username = u

\* C7 (amended): for a username without a row GetUser returns an error, which
\* is "user not found" while the users table exists and the storage error when
\* it does not; a nil error comes only with a row of that username.
C7_NotFoundAmended ==
    \A u \in Usernames :
        /\ RowsOf(db, u) = <<>> =>
              GetUser(db, u).err = (IF db.exists THEN "user not found" ELSE ErrNoTable)
        /\ GetUser(db, u).err = Nil =>
              /\ GetUser(db, u).user # ZeroUser
              /\ \E i \in 1..Len(db.users) :
                    db.users[i] = GetUser(db, u).user /\ db.users[i].Username = u

\* a text whose lookup found no row of the sender while another user has one
C7_Witness ==
    /\ last.kind = "text"
    /\ last.auth = "could not get user: user not found"
    /\ RowsOf(db, Sender) = <<>>
    /\ db.users # <<>>

\* C8 (as claimed): right after a successful CreateUser(u, t), GetUser(u)
\* succeeds with a record whose username is u and whose token is t.
C8_ReadAfterWrite ==
    (last.kind = "/auth" /\ last.did.sent = <<"Authenticated successfully">>) =>
        /\ GetUser(db, Sender).err = Nil
        /\ GetUser(db, Sender).user.Username = Sender
        /\ GetUser(db, Sender).user.Token = last.c.args[1]

\* C9 (as claimed): while AUTH_TOKEN is unchanged since a user's registration
\* checkAuth does not fail with "invalid token" for that user; a user whose
\* rows all hold another token than the present secret fails checkAuth, gets
\* the authentication-required notice and does not reach queryGroq.
C9_Revalidation ==
    last.kind = "text" =>
        /\ Sender \in authed => last.auth # "invalid token"
        /\ (/\ RowsOf(db, Sender) # <<>>
            /\ \A i \in 1..Len(db.users) :
                  db.users[i].Username = Sender => db.users[i].Token # env) =>
              /\ last.auth = "invalid token"
              /\ last.did.sent = <<AuthRequired>>
              /\ last.did.groq = <<>>

\* C10: the rows of a username are as many as its successful /auth calls, ids
\* are pairwise distinct, and /start, /auth, a text and a restart keep every
\* row that was there, in place and unchanged; only the table drop removes rows.
C10_StoreOnlyGrows ==
    /\ \A u \in Usernames : Len(RowsOf(db, u)) = authOK[u]
    /\ \A i, j \in 1..Len(db.users) : i # j => db.users[i].ID # db.users[j].ID
    /\ last.kind # "cleanup" => IsPrefix(last.before.users, db.users)
    /\ last.kind \in {"/start", "text", "main"} => db.users = last.before.users

\* a user registered twice holds two rows
C10_Witness ==
    \E u \in Usernames :
        /\ authOK[u] = 2
        /\ Len(RowsOf(db, u)) = 2
        /\ last.kind = "/auth"

====
